---- MODULE Spec2Model ----
(***************************************************************************)
(* StrictDataclass: a dataclass base whose construction coerces every      *)
(* field to its declared type (casting.py, cast_to_any_type) and which     *)
(* offers item access by ordinal or name and refuses deletion              *)
(* (strictdataclass/__init__.py).                                          *)
(*                                                                         *)
(* Python values and type declarations are modelled as tagged records of   *)
(* one shape each; the builtin constructors int, str and NoneType and the  *)
(* date parser are modelled on the strings and numbers of the universe     *)
(* below, with CPython 3.11 semantics (list[int] is no instance of type,   *)
(* isinstance accepts typing.Union of classes, refuses typing.Any and      *)
(* parameterized generics).                                                *)
(***************************************************************************)
EXTENDS Integers, Sequences, FiniteSets, TLC

VARIABLES
    cast_value, \* argument of the coercion call
    cast_type,  \* declared type of the coercion call
    outcome,    \* result of the last operation: [st, val]
    fields_dict,\* the record class's declared field types, in declaration order
    attrs,      \* the record instance's attribute values, in declaration order
    alive,      \* TRUE once construction of the instance has completed
    written,    \* per field, the value most recently handed to __setitem__
    pristine,   \* TRUE while nothing was written since construction
    op          \* the last operation performed: [name, key]

vars == <<cast_value, cast_type, outcome, fields_dict, attrs, alive,
          written, pristine, op>>

(***************************************************************************)
(* Bounds of the universe.                                                 *)
(***************************************************************************)
MaxLen == 2

(***************************************************************************)
(* Python values. k is the runtime class; n, s, e, m carry the payload.    *)
(***************************************************************************)
Val(k, n, s, e, m) == [k |-> k, n |-> n, s |-> s, e |-> e, m |-> m]

NoneV == Val("none", 0, "", <<>>, {})
IntV(i) == Val("int", i, "", <<>>, {})
BoolV(b) == Val("bool", IF b THEN 1 ELSE 0, "", <<>>, {})
StrV(t) == Val("str", 0, t, <<>>, {})
\* the date / datetime the parser reads from text t
DateV(t) == Val("date", 0, t, <<>>, {})
DateTimeV(t) == Val("datetime", 0, t, <<>>, {})
ListV(q) == Val("list", 0, "", q, {})
TupleV(q) == Val("tuple", 0, "", q, {})
SetV(x) == Val("set", 0, "", <<>>, x)
\* one key/value entry of a dict; a dict is the sequence of its entries
EntryV(key, v) == Val("entry", 0, key, <<v>>, {})
DictV(q) == Val("dict", 0, "", q, {})
\* an instance of record class cls with its field values in declaration order
RecV(cls, q) == Val("rec", 0, cls, q, {})
\* the text str(v) of a value whose text is no string of the universe
ReprV(v) == Val("str", 0, "repr", <<v>>, {})

(***************************************************************************)
(* Type declarations.                                                      *)
(***************************************************************************)
Ty(c, n, args) == [c |-> c, n |-> n, args |-> args]

Cls(n) == Ty("class", n, <<>>)
AnyT == Ty("Any", "Any", <<>>)
\* an annotation that is no type object (a string annotation such as 'int')
AnnotationT == Ty("annotation", "int", <<>>)
\* a parameterized generic origin[args], e.g. list[int], dict[str, int]
Generic(origin, args) == Ty("generic", origin, args)
\* typing.Union[args] (typing.Optional[T] is typing.Union[T, None])
UnionT(args) == Ty("Union", "", args)
\* X | Y, a types.UnionType
UnionTypeT(args) == Ty("UnionType", "", args)
\* a tuple of candidate types (T1, ..., Tn)
Candidates(args) == Ty("tuple", "", args)

IntT == Cls("int")
StrT == Cls("str")
BoolT == Cls("bool")
DateT == Cls("date")
DateTimeT == Cls("datetime")
NoneTypeT == Cls("NoneType")
InnerT == Cls("Inner")
OptionalT(t) == UnionT(<<t, NoneTypeT>>)

\* Field declarations of the record classes: Inner(a: int).
ClassFields(cls) ==
    CASE cls = "Inner" -> << [name |-> "a", type |-> IntT] >>

(***************************************************************************)
(* Outcomes of a call: a returned value or the class of the raised error.  *)
(***************************************************************************)
Ok(v) == [st |-> "ok", val |-> v]
Err(kind) == [st |-> kind, val |-> NoneV]
Raised(r) == r.st # "ok"
\* ObjectTypeNotCastableError subclasses TypeError
IsTypeError(r) == r.st \in {"TypeError", "ObjectTypeNotCastableError"}
IsValueError(r) == r.st = "ValueError"
IsNotCastable(r) == r.st = "ObjectTypeNotCastableError"

(***************************************************************************)
(* Builtin behaviour the casting functions rely on.                        *)
(***************************************************************************)
IsRepr(v) == v.k = "str" /\ v.e # <<>>

DecStr == <<"0", "1", "2", "3", "4", "5", "6", "7", "8", "9">>
IsDigit(t) == \E d \in 1..Len(DecStr) : DecStr[d] = t
DigitOf(t) == (CHOOSE d \in 1..Len(DecStr) : DecStr[d] = t) - 1

\* the characters of a string, as iterating it yields them
Chars(t) ==
    CASE t = "" -> <<>>
      [] t = "abc" -> <<"a", "b", "c">>
      [] t = "2024-01-02" -> <<"2", "0", "2", "4", "-", "0", "1", "-", "0", "2">>
      [] t = "None" -> <<"N", "o", "n", "e">>
      [] t = "True" -> <<"T", "r", "u", "e">>
      [] t = "False" -> <<"F", "a", "l", "s", "e">>
      [] t \in {"a", "b", "c", "T", "-", "N", "o", "n", "e", "r", "u", "F",
                "l", "s"} \/ IsDigit(t) -> <<t>>

\* str.upper()
Upper(t) ==
    CASE t = "abc" -> "ABC"
      [] t = "a" -> "A"
      [] t = "b" -> "B"
      [] t = "c" -> "C"
      [] t \in {"t", "T"} -> "T"
      [] t \in {"true", "True", "TRUE"} -> "TRUE"
      [] t = "None" -> "NONE"
      [] t = "False" -> "FALSE"
      [] OTHER -> t

\* str(v)
StrOf(v) ==
    CASE v.k = "str" -> v
      [] v.k = "int" /\ v.n \in 0..9 -> StrV(DecStr[v.n + 1])
      [] v.k = "bool" -> StrV(IF v.n = 1 THEN "True" ELSE "False")
      [] v.k = "none" -> StrV("None")
      [] v.k = "date" /\ v.s = "2024-01-02" -> StrV(v.s)
      [] OTHER -> ReprV(v)

\* int(x)
IntCtor1(x) ==
    CASE x.k \in {"int", "bool"} -> Ok(IntV(x.n))
      [] x.k = "str" ->
            IF ~IsRepr(x) /\ IsDigit(x.s) THEN Ok(IntV(DigitOf(x.s)))
            ELSE Err("ValueError")
      [] OTHER -> Err("TypeError")

\* int(x, base), for the bases 0..10 the universe can produce
IntCtor2(x, base) ==
    IF base.k \notin {"int", "bool"} THEN Err("TypeError")
    ELSE IF base.n = 1 THEN Err("ValueError")
    ELSE IF x.k # "str" THEN Err("TypeError")
    ELSE IF ~IsRepr(x) /\ IsDigit(x.s)
            /\ (base.n = 0 \/ DigitOf(x.s) < base.n)
         THEN Ok(IntV(DigitOf(x.s)))
         ELSE Err("ValueError")

\* texts dateutil.parser.parse reads as a date (a lone day number is a day of
\* the current month); every other text of the universe is a ParserError,
\* which is a ValueError, and a non-string is a TypeError
DateTexts == {"2024-01-02", "1", "2", "4", "5"}
parse(v) ==
    IF v.k # "str" THEN Err("TypeError")
    ELSE IF ~IsRepr(v) /\ v.s \in DateTexts THEN Ok(DateTimeV(v.s))
    ELSE IF IsRepr(v) /\ v.e[1].k \in {"date", "datetime"}
         THEN Ok(DateTimeV(v.e[1].s))
    ELSE Err("ValueError")

\* bool(v) for a value that is neither int nor str; a record has __len__
Truthy(v) ==
    CASE v.k = "none" -> FALSE
      [] v.k \in {"list", "tuple", "dict", "rec"} -> v.e # <<>>
      [] v.k = "set" -> v.m # {}
      [] v.k \in {"date", "datetime"} -> TRUE

RECURSIVE Hashable(_)
Hashable(v) ==
    CASE v.k \in {"none", "int", "bool", "str", "date", "datetime"} -> TRUE
      [] v.k = "tuple" -> \A i \in 1..Len(v.e) : Hashable(v.e[i])
      [] OTHER -> FALSE

RECURSIVE SeqOfSet(_)
\* the elements of a set in one iteration order
SeqOfSet(x) ==
    IF x = {} THEN <<>>
    ELSE LET a == CHOOSE a \in x : TRUE IN <<a>> \o SeqOfSet(x \ {a})

\* True == 1 and False == 0: a set keeps the first of two equal elements
HashKey(v) == IF v.k = "bool" THEN IntV(v.n) ELSE v

RECURSIVE SetOfSeq(_)
\* the set built by adding the items of q one after the other
SetOfSeq(q) ==
    IF q = <<>> THEN {}
    ELSE LET front == SetOfSeq(SubSeq(q, 1, Len(q) - 1))
             last == q[Len(q)]
         IN IF \E x \in front : HashKey(x) = HashKey(last) THEN front
            ELSE front \cup {last}

\* isinstance(v, cls) for a class
IsInstanceOfClass(v, n) ==
    CASE n = "int" -> v.k \in {"int", "bool"}
      [] n = "str" -> v.k = "str"
      [] n = "bool" -> v.k = "bool"
      [] n = "date" -> v.k \in {"date", "datetime"}
      [] n = "datetime" -> v.k = "datetime"
      [] n = "NoneType" -> v.k = "none"
      [] OTHER -> v.k = "rec" /\ v.s = n

\* isinstance(v, t): "True", "False", or "TypeError" when t cannot be the
\* second argument of isinstance
InstanceCheck(v, t) ==
    CASE t.c = "class" -> IF IsInstanceOfClass(v, t.n) THEN "True" ELSE "False"
      [] t.c \in {"Union", "UnionType"} ->
            IF \E i \in 1..Len(t.args) : t.args[i].c # "class" THEN "TypeError"
            ELSE IF \E i \in 1..Len(t.args) : IsInstanceOfClass(v, t.args[i].n)
                 THEN "True" ELSE "False"
      [] t.c \in {"Any", "annotation", "generic"} -> "TypeError"

\* typing.get_origin(t); "None" when t is no parameterized form
get_origin(t) ==
    CASE t.c = "generic" -> t.n
      [] t.c \in {"Union", "UnionType"} -> t.c
      [] OTHER -> "None"

\* str(cast_type)[:15] == 'typing.Optional': typing.Union of exactly one
\* type and None prints as typing.Optional[...]; X | None does not
OptionalPrefix(t) ==
    /\ t.c = "Union"
    /\ Len(t.args) = 2
    /\ \E i \in 1..2 : t.args[i] = NoneTypeT

RECURSIVE asdict(_)
\* dataclasses.asdict: records become dicts, lists, tuples and dicts are
\* rebuilt element-wise, everything else is copied
asdict(v) ==
    CASE v.k = "rec" ->
            DictV([i \in 1..Len(v.e) |->
                     EntryV(ClassFields(v.s)[i].name, asdict(v.e[i]))])
      [] v.k \in {"list", "tuple"} ->
            Val(v.k, 0, "", [i \in 1..Len(v.e) |-> asdict(v.e[i])], {})
      [] v.k = "dict" ->
            DictV([i \in 1..Len(v.e) |->
                     EntryV(v.e[i].s, asdict(v.e[i].e[1]))])
      [] OTHER -> v

\* iter(v): the items a for loop or a * unpacking sees, or TypeError.
\* A record iterates as single-entry dicts (__iter__).
Iterate(v) ==
    CASE v.k \in {"list", "tuple"} -> Ok(ListV(v.e))
      [] v.k = "set" -> Ok(ListV(SeqOfSet(v.m)))
      [] v.k = "dict" -> Ok(ListV([i \in 1..Len(v.e) |-> StrV(v.e[i].s)]))
      [] v.k = "str" ->
            LET cs == Chars(v.s) IN
            Ok(ListV([i \in 1..Len(cs) |-> StrV(cs[i])]))
      [] v.k = "rec" ->
            Ok(ListV([i \in 1..Len(v.e) |->
                        DictV(<<EntryV(ClassFields(v.s)[i].name,
                                       asdict(v.e[i]))>>)]))
      [] OTHER -> Err("TypeError")

(***************************************************************************)
(* casting.py                                                              *)
(***************************************************************************)
TRUE_BOOLS == {"1", "TRUE", "T"}

cast_to_bool(v) ==
    LET w == IF v.k \in {"int", "bool"} THEN StrOf(v) ELSE v IN
    IF w.k # "str" THEN BoolV(Truthy(w))
    ELSE BoolV(~IsRepr(w) /\ Upper(w.s) \in TRUE_BOOLS)

RECURSIVE cast_to_any_type(_, _)
RECURSIVE cast_to_complex_type(_, _)
RECURSIVE cast_to_simple_type(_, _)
RECURSIVE cast_to_custom_type(_, _)
RECURSIVE cast_to_multiple_types(_, _)
RECURSIVE CastEach(_, _, _)
RECURSIVE type_cast_fields(_, _, _)
RECURSIVE Call(_, _, _)

\* The fields a dataclass __init__ binds from positional and keyword
\* arguments, in declaration order; <<>> marks a binding error (TypeError).
BindOk(decl, args, kwargs) ==
    /\ Len(args) <= Len(decl)
    /\ \A j \in 1..Len(kwargs) :
          \E i \in (Len(args) + 1)..Len(decl) : decl[i].name = kwargs[j].s
    /\ \A i \in (Len(args) + 1)..Len(decl) :
          \E j \in 1..Len(kwargs) : decl[i].name = kwargs[j].s

Bind(decl, args, kwargs) ==
    [i \in 1..Len(decl) |->
        IF i <= Len(args) THEN args[i]
        ELSE LET j == CHOOSE j \in 1..Len(kwargs) : kwargs[j].s = decl[i].name
             IN kwargs[j].e[1]]

\* StrictDataclass.type_cast_fields from field i on: each field in
\* declaration order is replaced by its coercion; the first error ends it.
type_cast_fields(decl, values, i) ==
    IF i > Len(decl) THEN Ok(ListV(values))
    ELSE LET r == cast_to_any_type(values[i], decl[i].type) IN
         IF Raised(r) THEN r
         ELSE type_cast_fields(decl, [values EXCEPT ![i] = r.val], i + 1)

\* The dataclass constructor of a record class: __init__, then __post_init__.
NewRecord(cls, decl, args, kwargs) ==
    IF ~BindOk(decl, args, kwargs) THEN Err("TypeError")
    ELSE LET r == type_cast_fields(decl, Bind(decl, args, kwargs), 1) IN
         IF Raised(r) THEN r ELSE Ok(RecV(cls, r.val.e))

\* callable_type(*args, **kwargs) for the classes that reach
\* cast_to_custom_type: int, str, NoneType and the record classes
Call(n, args, kwargs) ==
    CASE n = "int" ->
            IF kwargs # <<>> \/ Len(args) > 2 THEN Err("TypeError")
            ELSE IF Len(args) = 0 THEN Ok(IntV(0))
            ELSE IF Len(args) = 1 THEN IntCtor1(args[1])
            ELSE IntCtor2(args[1], args[2])
      [] n = "str" ->
            IF kwargs # <<>> \/ Len(args) > 1 THEN Err("TypeError")
            ELSE IF Len(args) = 0 THEN Ok(StrV(""))
            ELSE Ok(StrOf(args[1]))
      [] n = "NoneType" ->
            IF kwargs # <<>> \/ args # <<>> THEN Err("TypeError")
            ELSE Ok(NoneV)
      [] n = "Inner" -> NewRecord(n, ClassFields(n), args, kwargs)

\* callable_type(**cast_value)
double_unpacked(v, t) ==
    IF v.k = "dict" THEN Call(t.n, <<>>, v.e) ELSE Err("TypeError")

\* callable_type(*cast_value)
single_unpacked(v, t) ==
    LET it == Iterate(v) IN
    IF Raised(it) THEN it ELSE Call(t.n, it.val.e, <<>>)

\* The except ValueError clause guards only the first attempt: an error
\* raised inside an except TypeError handler is not seen by it.
cast_to_custom_type(v, t) ==
    LET r1 == double_unpacked(v, t) IN
    IF IsTypeError(r1) THEN
        LET r2 == single_unpacked(v, t) IN
        IF IsTypeError(r2) THEN
            LET r3 == Call(t.n, <<v>>, <<>>) IN
            IF IsTypeError(r3) THEN Err("ObjectTypeNotCastableError")
            ELSE r3
        ELSE r2
    ELSE IF IsValueError(r1) THEN Err("ObjectTypeNotCastableError")
    ELSE r1

\* isinstance(cast_type, Callable)
IsCallable(t) == t.c = "class"

\* cast_to_simple_type without the cast_type == Any test
cast_to_simple_type_without_any(v, t) ==
    IF InstanceCheck(v, t) = "TypeError" THEN Err("TypeError")
    ELSE IF InstanceCheck(v, t) = "True" THEN Ok(v)
    ELSE IF t = DateT THEN
        LET r == parse(v) IN IF Raised(r) THEN r ELSE Ok(DateV(r.val.s))
    ELSE IF t = DateTimeT THEN parse(v)
    ELSE IF t = BoolT THEN Ok(cast_to_bool(v))
    ELSE IF ~IsCallable(t) THEN Err("ObjectTypeNotCastableError")
    ELSE cast_to_custom_type(v, t)

cast_to_simple_type(v, t) ==
    IF t = AnyT THEN Ok(v)
    ELSE IF InstanceCheck(v, t) = "TypeError" THEN Err("TypeError")
    ELSE IF InstanceCheck(v, t) = "True" THEN Ok(v)
    ELSE IF t = DateT THEN
        LET r == parse(v) IN IF Raised(r) THEN r ELSE Ok(DateV(r.val.s))
    ELSE IF t = DateTimeT THEN parse(v)
    ELSE IF t = BoolT THEN Ok(cast_to_bool(v))
    ELSE IF ~IsCallable(t) THEN Err("ObjectTypeNotCastableError")
    ELSE cast_to_custom_type(v, t)

\* for cast_type in cast_types: the first member that does not raise
\* ObjectTypeNotCastableError decides; when every member raised it the
\* function ends without a return statement, which returns None.
cast_to_multiple_types(v, types) ==
    IF types = <<>> THEN Ok(NoneV)
    ELSE LET r == cast_to_any_type(v, Head(types)) IN
         IF IsNotCastable(r) THEN cast_to_multiple_types(v, Tail(types))
         ELSE r

\* [cast_to_any_type(sub_value, type_args) for sub_value in items]; with
\* hashed, each result is added to a set as soon as it is made, and an
\* unhashable one raises TypeError there
CastEach(items, type_args, hashed) ==
    IF items = <<>> THEN Ok(ListV(<<>>))
    ELSE LET r == cast_to_any_type(Head(items), type_args) IN
         IF Raised(r) THEN r
         ELSE IF hashed /\ ~Hashable(r.val) THEN Err("TypeError")
         ELSE LET rest == CastEach(Tail(items), type_args, hashed) IN
              IF Raised(rest) THEN rest
              ELSE Ok(ListV(<<r.val>> \o rest.val.e))

cast_to_complex_type(v, t) ==
    IF t.c = "class" THEN cast_to_simple_type(v, t)
    ELSE LET origin == get_origin(t)
             type_args == Candidates(t.args)
         IN
         IF origin \in {"Union", "UnionType"}
         THEN cast_to_multiple_types(v, t.args)
         ELSE IF origin \in {"list", "set", "tuple"} THEN
             LET it == Iterate(v)
                 r == IF Raised(it) THEN it
                      ELSE CastEach(it.val.e, type_args, origin = "set")
             IN
             IF Raised(r) THEN r
             ELSE IF origin = "list" THEN r
             ELSE IF origin = "tuple" THEN Ok(TupleV(r.val.e))
             ELSE Ok(SetV(SetOfSeq(r.val.e)))
         ELSE IF origin = "dict" THEN
             \* cast_value.items() exists on a dict only
             IF v.k # "dict" THEN Err("AttributeError")
             ELSE LET r == CastEach([i \in 1..Len(v.e) |-> v.e[i].e[1]],
                                    type_args, FALSE)
                  IN
                  IF Raised(r) THEN r
                  ELSE Ok(DictV([i \in 1..Len(v.e) |->
                                   EntryV(v.e[i].s, r.val.e[i])]))
         ELSE Err("ObjectTypeNotCastableError")

\* The body of the for loop over cast_types returns or raises in its first
\* iteration, so only the first candidate is ever looked at.
cast_to_any_type(v, t) ==
    IF v = NoneV THEN
        IF OptionalPrefix(t) THEN Ok(NoneV)
        ELSE Err("ObjectTypeNotCastableError")
    ELSE LET cast_types == IF t.c = "tuple" THEN t.args ELSE <<t>> IN
         IF cast_types = <<>> THEN Err("ObjectTypeNotCastableError")
         ELSE LET c == cast_types[1] IN
              IF InstanceCheck(v, c) = "True" THEN Ok(v)
              ELSE IF get_origin(c) # "None" THEN cast_to_complex_type(v, c)
              ELSE cast_to_simple_type(v, c)

(***************************************************************************)
(* strictdataclass/__init__.py: the record wrapper. A record instance is   *)
(* its attribute dictionary attrs; fields_dict is the class's sequence of  *)
(* (name, type) declarations. type_cast_fields calls cast, which is        *)
(* cast_to_any_type of casting.py.                                         *)
(***************************************************************************)
AttrNames == {"x", "y", "z"}
Missing == Val("missing", 0, "", <<>>, {})

\* all_fields: the declared field names in declaration order
all_fields(decl) == [i \in 1..Len(decl) |-> decl[i].name]

\* fields(self)[item].name: Python indexing of the field tuple, where
\* -1 is the last field; "" marks an IndexError
FieldAt(decl, item) ==
    IF item.n \in 0..(Len(decl) - 1) THEN decl[item.n + 1].name
    ELSE IF item.n \in (-Len(decl))..(-1) THEN decl[Len(decl) + item.n + 1].name
    ELSE ""

__getitem__(self, decl, item) ==
    IF item.k \in {"int", "bool"} THEN
        IF FieldAt(decl, item) = "" THEN Err("IndexError")
        ELSE Ok(self[FieldAt(decl, item)])
    ELSE IF item.k = "str" THEN
        IF item.s \in AttrNames /\ self[item.s] # Missing THEN Ok(self[item.s])
        ELSE Err("AttributeError")
    ELSE Err("NotImplementedError")

\* the outcome of self[item] = value
SetItemOutcome(decl, item) ==
    IF item.k \in {"int", "bool"} THEN
        IF FieldAt(decl, item) = "" THEN Err("IndexError") ELSE Ok(NoneV)
    ELSE IF item.k = "str" THEN Ok(NoneV)
    ELSE Err("NotImplementedError")

\* __setitem__ coercing the value to the declared type of an addressed field
setitem_recoerces(self, decl, item, value) ==
    IF Raised(SetItemOutcome(decl, item)) THEN self
    ELSE LET name == IF item.k = "str" THEN item.s ELSE FieldAt(decl, item)
             r == IF \E i \in 1..Len(decl) : decl[i].name = name
                  THEN cast_to_any_type(value,
                          decl[CHOOSE i \in 1..Len(decl) :
                                  decl[i].name = name].type)
                  ELSE Ok(value)
         IN [self EXCEPT ![name] = IF Raised(r) THEN value ELSE r.val]

\* the attributes after self[item] = value
__setitem__(self, decl, item, value) ==
    IF Raised(SetItemOutcome(decl, item)) THEN self
    ELSE IF item.k = "str" THEN [self EXCEPT ![item.s] = value]
    ELSE [self EXCEPT ![FieldAt(decl, item)] = value]

\* __delitem__ removing the attribute an item names
delitem_removes(self, decl, item) ==
    IF item.k = "str" /\ item.s \in AttrNames
    THEN [self EXCEPT ![item.s] = Missing]
    ELSE IF item.k = "int" /\ FieldAt(decl, item) # ""
    THEN [self EXCEPT ![FieldAt(decl, item)] = Missing]
    ELSE self

\* the attributes after del self[item]: the method raises before anything
__delitem__(self, decl, item) == self

\* the attributes after del self.name
__delattr__(self, name) == self

\* the field values of an instance in declaration order
FieldValues(self, decl) == [i \in 1..Len(decl) |-> self[decl[i].name]]

\* to_dict: dataclasses.asdict of the instance
to_dict(self, decl) ==
    DictV([i \in 1..Len(decl) |->
             EntryV(decl[i].name, asdict(self[decl[i].name]))])

(***************************************************************************)
(* The universe of values and declarations the properties range over.      *)
(***************************************************************************)
RECURSIVE SeqsUpTo(_, _)
\* the sequences over S of length at most n
SeqsUpTo(S, n) ==
    IF n = 0 THEN {<<>>}
    ELSE LET shorter == SeqsUpTo(S, n - 1) IN
         shorter \cup {Append(q, x) : q \in shorter, x \in S}

Atoms ==
    {NoneV, IntV(0), IntV(1), IntV(5), BoolV(TRUE), BoolV(FALSE),
     StrV("1"), StrV("T"), StrV("abc"), StrV("2024-01-02"), StrV(""),
     DateV("2024-01-02"), DateTimeV("2024-01-02"), RecV("Inner", <<IntV(1)>>)}

Elems == {IntV(1), IntV(5), StrV("1"), StrV("abc")}
DictKeys == <<"a", "b", "c", "d">>

Containers ==
    LET qs == SeqsUpTo(Elems, MaxLen) IN
    {ListV(q) : q \in qs} \cup {TupleV(q) : q \in qs}
    \cup {SetV(x) : x \in SUBSET {IntV(1), IntV(5)}}
    \cup {DictV([i \in 1..Len(q) |-> EntryV(DictKeys[i], q[i])]) : q \in qs}
    \cup {ListV(<<RecV("Inner", <<IntV(5)>>)>>),
          DictV(<<EntryV("a", RecV("Inner", <<IntV(5)>>))>>)}

Values == Atoms \cup Containers

Types ==
    {IntT, StrT, BoolT, DateT, DateTimeT, NoneTypeT, InnerT, AnyT, AnnotationT,
     Generic("list", <<IntT>>), Generic("list", <<StrT>>),
     Generic("list", <<InnerT>>), Generic("set", <<IntT>>),
     Generic("tuple", <<IntT, StrT>>), Generic("dict", <<StrT, IntT>>),
     Generic("dict", <<StrT, InnerT>>), Generic("frozenset", <<IntT>>),
     OptionalT(IntT), OptionalT(InnerT), UnionT(<<IntT, StrT>>),
     UnionT(<<IntT, DateT>>), UnionT(<<IntT, InnerT>>),
     UnionT(<<IntT, StrT, NoneTypeT>>), UnionTypeT(<<IntT, NoneTypeT>>),
     Candidates(<<IntT, StrT>>), Candidates(<<StrT, IntT>>),
     Candidates(<<IntT, InnerT>>), Candidates(<<>>)}

\* the record class under study declares two fields, x and y
XTypes == {IntT, AnyT, UnionT(<<IntT, InnerT>>), Generic("dict", <<StrT, IntT>>)}
YTypes == {StrT, InnerT, Generic("list", <<IntT>>)}
RecordDecls ==
    {<< [name |-> "x", type |-> tx], [name |-> "y", type |-> ty] >> :
        tx \in XTypes, ty \in YTypes}

InitialValues ==
    {NoneV, IntV(1), StrV("5"), StrV("abc"), ListV(<<IntV(1), IntV(5)>>),
     ListV(<<StrV("1")>>), DictV(<<EntryV("a", StrV("1"))>>),
     RecV("Inner", <<IntV(1)>>)}
WrittenValues == {IntV(5), StrV("abc")}
Keys ==
    {IntV(0), IntV(1), IntV(2), IntV(-1), StrV("x"), StrV("y"), StrV("z"),
     NoneV}

Pending == [st |-> "pending", val |-> NoneV]
Op(name, key) == [name |-> name, key |-> key]
NoAttrs == [a \in AttrNames |-> Missing]

(***************************************************************************)
(* Coercion calls: one call of cast_to_any_type on drawn arguments, and    *)
(* the call repeated on its own result.                                    *)
(***************************************************************************)
InitCall ==
    /\ cast_value \in Values
    /\ cast_type \in Types
    /\ outcome = Pending
    /\ op = Op("init", NoneV)
    /\ fields_dict = <<>>
    /\ attrs = NoAttrs
    /\ alive = FALSE
    /\ written = NoAttrs
    /\ pristine = FALSE

CastToAnyType ==
    /\ op.name = "init"
    /\ outcome' = cast_to_any_type(cast_value, cast_type)
    /\ op' = Op("cast", NoneV)
    /\ UNCHANGED <<cast_value, cast_type, fields_dict, attrs, alive, written,
                   pristine>>

CastAgain ==
    /\ op.name = "cast"
    /\ ~Raised(outcome)
    /\ cast_value' = outcome.val
    /\ outcome' = cast_to_any_type(outcome.val, cast_type)
    /\ op' = Op("recast", NoneV)
    /\ UNCHANGED <<cast_type, fields_dict, attrs, alive, written, pristine>>

NextCall == CastToAnyType \/ CastAgain

SpecCall == InitCall /\ [][NextCall]_vars

(***************************************************************************)
(* A record class and one instance of it.                                  *)
(***************************************************************************)
Init ==
    /\ fields_dict \in RecordDecls
    /\ attrs = NoAttrs
    /\ alive = FALSE
    /\ written = NoAttrs
    /\ pristine = FALSE
    /\ outcome = Pending
    /\ op = Op("init", NoneV)
    /\ cast_value = NoneV
    /\ cast_type = AnyT

\* R(x0, y0): the dataclass __init__ stores the arguments, __post_init__
\* runs type_cast_fields; an error leaves no instance
Construct(x0, y0) ==
    /\ ~alive
    /\ LET r == type_cast_fields(fields_dict, <<x0, y0>>, 1) IN
       /\ outcome' = IF Raised(r) THEN r ELSE Ok(NoneV)
       /\ alive' = ~Raised(r)
       /\ attrs' = IF Raised(r) THEN NoAttrs
                   ELSE [a \in AttrNames |->
                            IF a = "x" THEN r.val.e[1]
                            ELSE IF a = "y" THEN r.val.e[2] ELSE Missing]
       /\ written' = attrs'
       /\ pristine' = ~Raised(r)
    /\ op' = Op("construct", NoneV)
    /\ UNCHANGED <<cast_value, cast_type, fields_dict>>

GetItem(item) ==
    /\ alive
    /\ outcome' = __getitem__(attrs, fields_dict, item)
    /\ op' = Op("getitem", item)
    /\ UNCHANGED <<cast_value, cast_type, fields_dict, attrs, alive, written,
                   pristine>>

\* the field a write is addressed to: the i-th declared field for an ordinal
\* (Python counts negative ordinals from the end), the named one for a name
Addressed(decl, item) ==
    IF item.k = "str" THEN item.s ELSE FieldAt(decl, item)

SetItem(item, value) ==
    /\ alive
    /\ outcome' = SetItemOutcome(fields_dict, item)
    /\ attrs' = __setitem__(attrs, fields_dict, item, value)
    /\ written' = IF Raised(outcome') THEN written
                  ELSE [written EXCEPT ![Addressed(fields_dict, item)] = value]
    /\ pristine' = (pristine /\ Raised(outcome'))
    /\ op' = Op("setitem", item)
    /\ UNCHANGED <<cast_value, cast_type, fields_dict, alive>>

DelItem(item) ==
    /\ alive
    /\ outcome' = Err("NotImplementedError")
    /\ attrs' = __delitem__(attrs, fields_dict, item)
    /\ op' = Op("delitem", item)
    /\ UNCHANGED <<cast_value, cast_type, fields_dict, alive, written,
                   pristine>>

DelAttr(name) ==
    /\ alive
    /\ outcome' = Err("NotImplementedError")
    /\ attrs' = __delattr__(attrs, name.s)
    /\ op' = Op("delattr", name)
    /\ UNCHANGED <<cast_value, cast_type, fields_dict, alive, written,
                   pristine>>

\* R(**self.to_dict()): a second instance built from the snapshot
Reconstruct ==
    /\ alive
    /\ outcome' = NewRecord("Record", fields_dict, <<>>,
                            to_dict(attrs, fields_dict).e)
    /\ op' = Op("reconstruct", NoneV)
    /\ UNCHANGED <<cast_value, cast_type, fields_dict, attrs, alive, written,
                   pristine>>

Next ==
    \/ \E x0 \in InitialValues, y0 \in InitialValues : Construct(x0, y0)
    \/ \E item \in Keys : GetItem(item)
    \/ \E item \in Keys, value \in WrittenValues : SetItem(item, value)
    \/ \E item \in Keys : DelItem(item)
    \/ \E name \in {StrV(a) : a \in AttrNames} : DelAttr(name)
    \/ Reconstruct

Spec == Init /\ [][Next]_vars

(***************************************************************************)
(* Properties.                                                             *)
(***************************************************************************)
RECURSIVE Member(_, _)
\* v satisfies declaration t: isinstance for a class, member-wise for a
\* union or a tuple of candidates, element-wise for a parameterized container
Member(v, t) ==
    CASE t.c = "class" -> IsInstanceOfClass(v, t.n)
      [] t.c = "Any" -> TRUE
      [] t.c \in {"Union", "UnionType", "tuple"} ->
            \E i \in 1..Len(t.args) : Member(v, t.args[i])
      [] t.c = "generic" /\ t.n = "list" ->
            v.k = "list" /\ \A i \in 1..Len(v.e) : Member(v.e[i], t.args[1])
      [] t.c = "generic" /\ t.n = "set" ->
            v.k = "set" /\ \A x \in v.m : Member(x, t.args[1])
      [] t.c = "generic" /\ t.n = "tuple" ->
            /\ v.k = "tuple"
            /\ Len(v.e) = Len(t.args)
            /\ \A i \in 1..Len(v.e) : Member(v.e[i], t.args[i])
      [] t.c = "generic" /\ t.n = "dict" ->
            /\ v.k = "dict"
            /\ \A i \in 1..Len(v.e) :
                  /\ Member(StrV(v.e[i].s), t.args[1])
                  /\ Member(v.e[i].e[1], t.args[2])
      [] OTHER -> FALSE

Called == op.name = "cast"

\* C1: after a construction that completes, every field's value is a member
\* of its declared type, or the declared type is Any.
C1_FieldsSatisfyDeclaredTypes ==
    (alive /\ op.name = "construct") =>
        \A i \in 1..Len(fields_dict) :
            \/ fields_dict[i].type = AnyT
            \/ Member(attrs[fields_dict[i].name], fields_dict[i].type)

\* C2: a call with a union declaration and a value other than None for
\* which every member's coercion fails with the coercion error fails with
\* the coercion error itself; it returns nothing.
C2_UnionAllFailRaises ==
    (/\ Called
     /\ cast_type.c \in {"Union", "UnionType"}
     /\ cast_value # NoneV
     /\ \A i \in 1..Len(cast_type.args) :
           IsNotCastable(cast_to_any_type(cast_value, cast_type.args[i])))
    => IsNotCastable(outcome)

\* C3: every failing call fails with ObjectTypeNotCastableError and with no
\* other kind of error.
C3_OnlyCoercionError ==
    (Called /\ Raised(outcome)) => IsNotCastable(outcome)

\* C4: with a tuple of candidate types and a value other than None, the
\* result is the coercion to the first candidate whose coercion succeeds,
\* and the call fails only when every candidate fails.
C4_FirstSuccessfulCandidateWins ==
    (Called /\ cast_type.c = "tuple" /\ cast_value # NoneV) =>
        LET succeeds == {i \in 1..Len(cast_type.args) :
                ~Raised(cast_to_any_type(cast_value, cast_type.args[i]))}
        IN IF succeeds = {} THEN Raised(outcome)
           ELSE LET first == CHOOSE i \in succeeds :
                                \A j \in succeeds : i <= j
                IN outcome = cast_to_any_type(cast_value, cast_type.args[first])

\* C5: coercing a mapping against dict[K, V] returns a mapping with the
\* same keys in which every value is the coercion of the original value
\* against V.
C5_DictValuesCoercedToValueType ==
    (/\ Called
     /\ cast_type.c = "generic" /\ cast_type.n = "dict"
     /\ cast_value.k = "dict"
     /\ \A i \in 1..Len(cast_value.e) :
           ~Raised(cast_to_any_type(cast_value.e[i].e[1], cast_type.args[2])))
    => outcome = Ok(DictV([i \in 1..Len(cast_value.e) |->
                    EntryV(cast_value.e[i].s,
                           cast_to_any_type(cast_value.e[i].e[1],
                                            cast_type.args[2]).val)]))

\* C6: every delete attempt, by ordinal, by name or by attribute deletion,
\* with any key, fails with NotImplementedError and leaves every attribute
\* and the declared fields as they were.
C6_DeleteAlwaysFails ==
    [][op'.name \in {"delitem", "delattr"} =>
          /\ outcome'.st = "NotImplementedError"
          /\ attrs' = attrs
          /\ fields_dict' = fields_dict]_vars

\* a delete by a name that is no field, and one by ordinal, both refused
C6_DeleteRefusedWitness ==
    /\ alive
    /\ op.name = "delitem"
    /\ op.key \in {StrV("z"), IntV(0)}
    /\ outcome.st = "NotImplementedError"
    /\ attrs["x"] # Missing /\ attrs["y"] # Missing

\* C7 (as stated): coercing any value, None included, against Any returns
\* the value unchanged.
C7_AnyAcceptsEverything ==
    (Called /\ cast_type = AnyT) => outcome = Ok(cast_value)

\* C7 (amended): coercing a value other than None against Any returns the
\* value unchanged; None against Any fails with the coercion error.
C7_AnyAcceptsAllButNone ==
    (op.name \in {"cast", "recast"} /\ cast_type = AnyT) =>
        IF cast_value = NoneV THEN IsNotCastable(outcome)
        ELSE outcome = Ok(cast_value)

\* a container coerced against Any and returned as it was
C7_AnyWitness ==
    /\ Called
    /\ cast_type = AnyT
    /\ cast_value.k = "list" /\ Len(cast_value.e) = 2
    /\ outcome = Ok(cast_value)

\* C8: a value that satisfies the declared type is returned unchanged, and
\* coercing the result again returns it unchanged. Stated for values other
\* than None, which only an Optional declaration accepts.
C8_IdempotentOnMembers ==
    /\ (Called /\ cast_value # NoneV /\ Member(cast_value, cast_type))
          => outcome = Ok(cast_value)
    /\ (op.name = "recast" /\ cast_value # NoneV
           /\ Member(cast_value, cast_type))
          => outcome = Ok(cast_value)

\* C9: building the record class from the to_dict snapshot of a constructed
\* instance succeeds and gives an instance equal to the original. Stated
\* for record classes with no field declared Any, where a snapshot's plain
\* mapping is all the declaration asks for.
C9_ToDictRoundTrips ==
    (/\ op.name = "reconstruct"
     /\ pristine
     /\ \A i \in 1..Len(fields_dict) : fields_dict[i].type # AnyT)
    => outcome = Ok(RecV("Record", FieldValues(attrs, fields_dict)))

\* C10: after any sequence of indexed writes, reading by ordinal i and by
\* the name of the i-th field give the same value, which is the value most
\* recently written to that field, exactly as written.
C10_OrdinalAndNameAgree ==
    alive =>
        \A i \in 1..Len(fields_dict) :
            /\ __getitem__(attrs, fields_dict, IntV(i - 1))
                  = __getitem__(attrs, fields_dict, StrV(fields_dict[i].name))
            /\ __getitem__(attrs, fields_dict, IntV(i - 1))
                  = Ok(written[fields_dict[i].name])

\* an int written by ordinal into a field declared str stays an int
C10_WriteWitness ==
    /\ alive
    /\ op = Op("setitem", IntV(1))
    /\ fields_dict[2].type = StrT
    /\ attrs["y"] = IntV(5)
    /\ __getitem__(attrs, fields_dict, StrV("y")) = Ok(IntV(5))

====
